---------------------------- MODULE Spec2Model ----------------------------
(***************************************************************************)
(* vmess_to_clash.py: one vmess:// link is decoded (base64 -> UTF-8 ->     *)
(* JSON) into a record, the record is mapped to a Clash configuration, and *)
(* the configuration is written to a file.                                 *)
(*                                                                         *)
(* Text is a sequence of Unicode code points, bytes are 0..255.  A Python  *)
(* value is a record with a type tag t, so that values of different Python *)
(* types can be compared.                                                  *)
(***************************************************************************)
EXTENDS Integers, Sequences, FiniteSets, TLC

(***************************************************************************)
(* Python values                                                           *)
(***************************************************************************)
PyVal(t, s, n, m, l) == [t |-> t, s |-> s, n |-> n, m |-> m, l |-> l]
PyStr(s)      == PyVal("str", s, 0, <<>>, <<>>)
PyInt(n)      == PyVal("int", <<>>, n, <<>>, <<>>)
\* a float keeps its literal (s) and its value truncated toward zero (n)
PyFloat(s, n) == PyVal("float", s, n, <<>>, <<>>)
PyBool(b)     == PyVal("bool", <<>>, IF b THEN 1 ELSE 0, <<>>, <<>>)
PyNone        == PyVal("NoneType", <<>>, 0, <<>>, <<>>)
PyDict(m)     == PyVal("dict", <<>>, 0, m, <<>>)
PyList(l)     == PyVal("list", <<>>, 0, <<>>, l)

\* the outcome of a call: a value, or a raised exception (msg is str(e), the
\* parts of its f-string in order; cause is the type of the exception that
\* was being handled when this one was raised)
Return(v) == [ok |-> TRUE, val |-> v, exc |-> "", msg |-> <<>>, cause |-> ""]
Raise(exc, msg) ==
  [ok |-> FALSE, val |-> PyNone, exc |-> exc, msg |-> msg, cause |-> ""]

(***************************************************************************)
(* Literals of the source, as code points                                  *)
(***************************************************************************)
VmessPrefix  == <<118, 109, 101, 115, 115, 58, 47, 47>>       \* 'vmess://'
K_ps         == <<112, 115>>                                  \* "ps"
K_add        == <<97, 100, 100>>                              \* "add"
K_port       == <<112, 111, 114, 116>>                        \* "port"
K_id         == <<105, 100>>                                  \* "id"
K_aid        == <<97, 105, 100>>                              \* "aid"
K_scy        == <<115, 99, 121>>                              \* "scy"
K_security   == <<115, 101, 99, 117, 114, 105, 116, 121>>     \* "security"
K_tls        == <<116, 108, 115>>                             \* "tls"
K_net        == <<110, 101, 116>>                             \* "net"
K_path       == <<112, 97, 116, 104>>                         \* "path"
K_host       == <<104, 111, 115, 116>>                        \* "host"
T_VmessNode  == <<86, 109, 101, 115, 115, 33410, 28857>>      \* "Vmess节点"
T_AutoSelect == <<33258, 21160, 36873, 25321>>                \* "自动选择"
T_PROXY      == <<80, 82, 79, 88, 89>>                        \* "PROXY"
T_auto       == <<97, 117, 116, 111>>                         \* "auto"
T_zero       == <<122, 101, 114, 111>>                        \* "zero"
T_tcp        == <<116, 99, 112>>                              \* "tcp"
T_ws         == <<119, 115>>                                  \* "ws"
T_tls        == <<116, 108, 115>>                             \* "tls"
T_slash      == <<47>>                                        \* "/"
T_empty      == <<>>                                          \* ""
T_vmess      == <<118, 109, 101, 115, 115>>                   \* "vmess"
T_rule       == <<114, 117, 108, 101>>                        \* "rule"
T_info       == <<105, 110, 102, 111>>                        \* "info"
T_select     == <<115, 101, 108, 101, 99, 116>>               \* "select"
T_url_test   == <<117, 114, 108, 45, 116, 101, 115, 116>>     \* "url-test"
T_match      == <<77, 65, 84, 67, 72, 44, 80, 82, 79, 88, 89>> \* "MATCH,PROXY"
\* "127.0.0.1:9090"
T_controller == <<49, 50, 55, 46, 48, 46, 48, 46, 49, 58, 57, 48, 57, 48>>
\* "http://www.gstatic.com/generate_204"
T_test_url   ==
  <<104, 116, 116, 112, 58, 47, 47, 119, 119, 119, 46, 103, 115, 116, 97,
    116, 105, 99, 46, 99, 111, 109, 47, 103, 101, 110, 101, 114, 97, 116,
    101, 95, 50, 48, 52>>

(***************************************************************************)
(* str.startswith and slicing                                              *)
(***************************************************************************)
StartsWith(s, p) == Len(s) >= Len(p) /\ SubSeq(s, 1, Len(p)) = p
\* s[k:] of Python (k is 0-based)
SliceFrom(s, k) == SubSeq(s, k + 1, Len(s))

(***************************************************************************)
(* base64.b64decode(s) with validate=False: binascii.a2b_base64 in its     *)
(* non-strict mode.  Its loop over the characters is written here by       *)
(* position: characters outside the alphabet are skipped; quad_pos is the  *)
(* number of data characters read so far modulo 4; a '=' read at           *)
(* quad_pos >= 2 counts as padding, and the data ends at the '=' that      *)
(* completes the quad (quad_pos + pads >= 4); at the end of the input a    *)
(* quad left open raises.                                                  *)
(***************************************************************************)
IsB64Char(c) ==
  \/ (c >= 65 /\ c <= 90) \/ (c >= 97 /\ c <= 122) \/ (c >= 48 /\ c <= 57)
  \/ c = 43 \/ c = 47
IsB64OrPad(c) == IsB64Char(c) \/ c = 61

\* table_a2b_base64
B64Value(c) ==
  IF c >= 65 /\ c <= 90 THEN c - 65
  ELSE IF c >= 97 /\ c <= 122 THEN c - 71
  ELSE IF c >= 48 /\ c <= 57 THEN c + 4
  ELSE IF c = 43 THEN 62 ELSE 63

\* *bin_data++ of the cases quad_pos = 1, 2, 3: byte r of the quad at d[g+1..g+4]
B64ByteAt(d, g, r) ==
  IF r = 0 THEN d[g + 1] * 4 + (d[g + 2] \div 16)
  ELSE IF r = 1 THEN (d[g + 2] % 16) * 16 + (d[g + 3] \div 4)
  ELSE (d[g + 3] % 4) * 64 + d[g + 4]

\* the bytes that n sextets give
B64ByteCount(n) == (n \div 4) * 3 + (IF n % 4 = 0 THEN 0 ELSE (n % 4) - 1)

B64Bytes(d) ==
  [j \in 1..B64ByteCount(Len(d)) |-> B64ByteAt(d, 4 * ((j - 1) \div 3), (j - 1) % 3)]

\* quad_pos when f[i] is read (f holds no skipped character)
QuadPos(f, i) == Cardinality({j \in 1..(i - 1) : f[j] # 61}) % 4

\* f[i] is the '=' at which the loop leaves with "goto done"
IsPadStop(f, i) ==
  /\ f[i] = 61
  /\ \/ QuadPos(f, i) = 3
     \/ QuadPos(f, i) = 2 /\ i > 1 /\ f[i - 1] = 61

\* the first such position, Len(f) + 1 if the loop runs to the end
PadStop(f) ==
  CHOOSE i \in 1..(Len(f) + 1) :
    /\ (i <= Len(f) => IsPadStop(f, i))
    /\ \A j \in 1..(i - 1) : ~IsPadStop(f, j)

\* the end of a2b_base64: data are the data characters read before stop
A2bEnd(f, stop, data) ==
  IF stop > Len(f) /\ Len(data) % 4 = 1
  THEN Raise("binascii.Error",
             <<"Invalid base64-encoded string: number of data characters cannot be 1 more than a multiple of 4">>)
  ELSE IF stop > Len(f) /\ Len(data) % 4 # 0
  THEN Raise("binascii.Error", <<"Incorrect padding">>)
  ELSE Return(B64Bytes([i \in 1..Len(data) |-> B64Value(data[i])]))

A2bUpTo(f, stop) == A2bEnd(f, stop, SelectSeq(SubSeq(f, 1, stop - 1), IsB64Char))

A2bBase64(f) == A2bUpTo(f, PadStop(f))

B64Decode(s) ==
  IF \E i \in 1..Len(s) : s[i] > 127
  THEN Raise("ValueError", <<"string argument should contain only ASCII characters">>)
  ELSE A2bBase64(SelectSeq(s, IsB64OrPad))

(***************************************************************************)
(* bytes.decode('utf-8'), strict: shortest form only, no surrogates,       *)
(* nothing above U+10FFFF.  A sequence starts at every byte that is not a  *)
(* continuation byte.                                                      *)
(***************************************************************************)
IsCont(b) == b >= 128 /\ b <= 191

\* the length of the sequence a first byte announces, 0 for no first byte
Utf8Len(b0) ==
  IF b0 < 128 THEN 1
  ELSE IF b0 >= 194 /\ b0 <= 223 THEN 2
  ELSE IF b0 >= 224 /\ b0 <= 239 THEN 3
  ELSE IF b0 >= 240 /\ b0 <= 244 THEN 4
  ELSE 0

\* the n bytes from b[i] on are a well-formed sequence, and the next one
\* starts right after them
Utf8ValidSeq(b, i, n) ==
  /\ n > 0
  /\ i + n - 1 <= Len(b)
  /\ \A k \in 1..(n - 1) : IsCont(b[i + k])
  /\ (i + n <= Len(b) => ~IsCont(b[i + n]))
  /\ (b[i] = 224 => b[i + 1] >= 160)
  /\ (b[i] = 237 => b[i + 1] <= 159)
  /\ (b[i] = 240 => b[i + 1] >= 144)
  /\ (b[i] = 244 => b[i + 1] <= 143)

Utf8CodePoint(b, i, n) ==
  IF n = 1 THEN b[i]
  ELSE IF n = 2 THEN (b[i] - 192) * 64 + (b[i + 1] - 128)
  ELSE IF n = 3
  THEN (b[i] - 224) * 4096 + (b[i + 1] - 128) * 64 + (b[i + 2] - 128)
  ELSE (b[i] - 240) * 262144 + (b[i + 1] - 128) * 4096
       + (b[i + 2] - 128) * 64 + (b[i + 3] - 128)

\* starts: the positions of the bytes that are no continuation bytes
Utf8DecodeAt(b, starts) ==
  IF \/ (b # <<>> /\ IsCont(b[1]))
     \/ \E k \in 1..Len(starts) : ~Utf8ValidSeq(b, starts[k], Utf8Len(b[starts[k]]))
  THEN Raise("UnicodeDecodeError", <<"'utf-8' codec can't decode byte">>)
  ELSE Return([k \in 1..Len(starts) |->
                 Utf8CodePoint(b, starts[k], Utf8Len(b[starts[k]]))])

Utf8Decode(b) ==
  Utf8DecodeAt(b, SelectSeq([i \in 1..Len(b) |-> i], LAMBDA i : ~IsCont(b[i])))

(***************************************************************************)
(* json.loads(text): the grammar of json.decoder / json.scanner.  Modelled *)
(* are objects, arrays, strings with the one-character escapes, numbers,   *)
(* true, false and null; \uXXXX escapes and NaN/Infinity are not, and no   *)
(* input drawn below holds them.                                           *)
(***************************************************************************)
Parsed(v, pos)  == [ok |-> TRUE, val |-> v, pos |-> pos, msg |-> ""]
ParseError(msg) == [ok |-> FALSE, val |-> PyNone, pos |-> 0, msg |-> msg]

IsWs(c)    == c = 32 \/ c = 9 \/ c = 10 \/ c = 13
IsDigit(c) == c >= 48 /\ c <= 57
At(s, i, c) == i <= Len(s) /\ s[i] = c
DigitAt(s, i) == i <= Len(s) /\ IsDigit(s[i])

\* WHITESPACE.match(s, i).end(): the first position from i on whose
\* character is no whitespace, Len(s) + 1 if there is none
SkipWs(s, i) ==
  IF i > Len(s) THEN i
  ELSE CHOOSE j \in i..(Len(s) + 1) :
         /\ (j <= Len(s) => ~IsWs(s[j]))
         /\ \A k \in i..(j - 1) : IsWs(s[k])

\* the same for the digits
DigitsEnd(s, i) ==
  IF i > Len(s) THEN i
  ELSE CHOOSE j \in i..(Len(s) + 1) :
         /\ (j <= Len(s) => ~IsDigit(s[j]))
         /\ \A k \in i..(j - 1) : IsDigit(s[k])

\* the value of the decimal digits s[from..to]
RECURSIVE DigitsVal(_, _, _)
DigitsVal(s, from, to) ==
  IF to < from THEN 0 ELSE DigitsVal(s, from, to - 1) * 10 + (s[to] - 48)

RECURSIVE Pow10(_)
Pow10(k) == IF k <= 0 THEN 1 ELSE 10 * Pow10(k - 1)

\* BACKSLASH dict of json.decoder: the character an escape stands for, 0 if none
Unescape(c) ==
  CASE c = 34 -> 34 [] c = 92 -> 92 [] c = 47 -> 47 [] c = 98 -> 8
    [] c = 102 -> 12 [] c = 110 -> 10 [] c = 114 -> 13 [] c = 116 -> 9
    [] OTHER -> 0

\* STRINGCHUNK: a character that is neither '"', '\' nor a control character
IsPlain(c) == c >= 32 /\ c # 34 /\ c # 92

\* the first position from i on whose character ends a run of plain ones
PlainEnd(s, i) ==
  IF i > Len(s) THEN i
  ELSE CHOOSE j \in i..(Len(s) + 1) :
         /\ (j <= Len(s) => ~IsPlain(s[j]))
         /\ \A k \in i..(j - 1) : IsPlain(s[k])

\* py_scanstring from the character after the opening quote: chunks of plain
\* characters, each ended (at e) by the closing quote or by an escape
RECURSIVE ScanString(_, _, _)
ScanChunk(s, i, out, e) ==
  IF e > Len(s) THEN ParseError("Unterminated string starting at")
  ELSE IF s[e] = 34 THEN Parsed(PyStr(out \o SubSeq(s, i, e - 1)), e + 1)
  ELSE IF s[e] < 32 THEN ParseError("Invalid control character at")
  ELSE IF e + 1 > Len(s) THEN ParseError("Unterminated string starting at")
  ELSE IF Unescape(s[e + 1]) = 0 THEN ParseError("Invalid \\escape")
  ELSE ScanString(s, e + 2,
                  Append(out \o SubSeq(s, i, e - 1), Unescape(s[e + 1])))
ScanString(s, i, out) ==
  ScanChunk(s, i, out, PlainEnd(s, i))

\* the value of a float literal, truncated toward zero
Truncated(mant, scale) ==
  IF scale >= 0 THEN mant * Pow10(scale) ELSE mant \div Pow10(-scale)

\* the sign of the literal that starts at s[i]
Signed(s, i, mag) == IF s[i] = 45 THEN -mag ELSE mag

\* NUMBER_RE: (-?(?:0|[1-9]\d*))(\.\d+)?([eE][-+]?\d+)?
\* d0 is where the digits start, iEnd, fEnd and eEnd where the integer, the
\* fraction and the exponent end, eStart where the exponent's digits start
\* (0 without an exponent)
FloatAt(s, i, d0, iEnd, fEnd, eStart, eEnd) ==
  Parsed(PyFloat(SubSeq(s, i, eEnd - 1),
                 Signed(s, i,
                   Truncated(DigitsVal(s, d0, iEnd - 1) * Pow10(fEnd - iEnd - 1)
                               + DigitsVal(s, iEnd + 1, fEnd - 1),
                             (IF eStart = 0 THEN 0
                              ELSE IF s[eStart - 1] = 45
                              THEN -DigitsVal(s, eStart, eEnd - 1)
                              ELSE DigitsVal(s, eStart, eEnd - 1))
                             - (IF fEnd > iEnd THEN fEnd - iEnd - 1 ELSE 0)))),
         eEnd)

NumberAt(s, i, d0, iEnd, fEnd, eStart) ==
  IF fEnd = iEnd /\ eStart = 0
  THEN Parsed(PyInt(Signed(s, i, DigitsVal(s, d0, iEnd - 1))), iEnd)
  ELSE FloatAt(s, i, d0, iEnd, fEnd, eStart,
               IF eStart = 0 THEN fEnd ELSE DigitsEnd(s, eStart))

ExponentStart(s, fEnd) ==
  IF ~(At(s, fEnd, 101) \/ At(s, fEnd, 69)) THEN 0
  ELSE IF (At(s, fEnd + 1, 43) \/ At(s, fEnd + 1, 45)) /\ DigitAt(s, fEnd + 2)
  THEN fEnd + 2
  ELSE IF DigitAt(s, fEnd + 1) THEN fEnd + 1
  ELSE 0

ScanExponent(s, i, d0, iEnd, fEnd) ==
  NumberAt(s, i, d0, iEnd, fEnd, ExponentStart(s, fEnd))

ScanFraction(s, i, d0, iEnd) ==
  ScanExponent(s, i, d0, iEnd,
               IF At(s, iEnd, 46) /\ DigitAt(s, iEnd + 1)
               THEN DigitsEnd(s, iEnd + 1) ELSE iEnd)

ScanInteger(s, i, d0) ==
  IF ~DigitAt(s, d0) THEN ParseError("Expecting value")
  ELSE ScanFraction(s, i, d0, IF s[d0] = 48 THEN d0 + 1 ELSE DigitsEnd(s, d0))

ScanNumber(s, i) == ScanInteger(s, i, IF At(s, i, 45) THEN i + 1 ELSE i)

Word(s, i, w) == i + Len(w) - 1 <= Len(s) /\ SubSeq(s, i, i + Len(w) - 1) = w

RECURSIVE ScanOnce(_, _), ScanMembers(_, _, _), ScanItems(_, _, _)

\* JSONObject: after a member's value, at e: '}' ends the object, ',' goes on
MemberEnd(s, acc, e) ==
  IF At(s, e, 125) THEN Parsed(PyDict(acc), e + 1)
  ELSE IF At(s, e, 44) THEN ScanMembers(s, SkipWs(s, e + 1), acc)
  ELSE ParseError("Expecting ',' delimiter")

\* the member's value v is stored under its name; a later one replaces it
MemberValue(s, acc, name, v) ==
  IF ~v.ok THEN v
  ELSE MemberEnd(s, (name :> v.val) @@ acc, SkipWs(s, v.pos))

MemberColon(s, acc, name, colon) ==
  IF ~At(s, colon, 58) THEN ParseError("Expecting ':' delimiter")
  ELSE MemberValue(s, acc, name, ScanOnce(s, SkipWs(s, colon + 1)))

MemberName(s, acc, key) ==
  IF ~key.ok THEN key
  ELSE MemberColon(s, acc, key.val.s, SkipWs(s, key.pos))

\* JSONObject after '{' and whitespace: "key" : value (, "key" : value)* }
ScanMembers(s, i, acc) ==
  IF ~At(s, i, 34)
  THEN ParseError("Expecting property name enclosed in double quotes")
  ELSE MemberName(s, acc, ScanString(s, i + 1, <<>>))

ItemEnd(s, acc, e) ==
  IF At(s, e, 93) THEN Parsed(PyList(acc), e + 1)
  ELSE IF At(s, e, 44) THEN ScanItems(s, SkipWs(s, e + 1), acc)
  ELSE ParseError("Expecting ',' delimiter")

ItemValue(s, acc, v) ==
  IF ~v.ok THEN v ELSE ItemEnd(s, Append(acc, v.val), SkipWs(s, v.pos))

\* JSONArray after '[' and whitespace: value (, value)* ]
ScanItems(s, i, acc) == ItemValue(s, acc, ScanOnce(s, i))

\* JSONObject and JSONArray from the first character after the bracket
ObjectAt(s, j) ==
  IF At(s, j, 125) THEN Parsed(PyDict(<<>>), j + 1) ELSE ScanMembers(s, j, <<>>)
ArrayAt(s, j) ==
  IF At(s, j, 93) THEN Parsed(PyList(<<>>), j + 1) ELSE ScanItems(s, j, <<>>)

\* scan_once of json.scanner: one value starting at s[i]
ScanOnce(s, i) ==
  IF i > Len(s) THEN ParseError("Expecting value")
  ELSE IF s[i] = 34 THEN ScanString(s, i + 1, <<>>)
  ELSE IF s[i] = 123 THEN ObjectAt(s, SkipWs(s, i + 1))
  ELSE IF s[i] = 91 THEN ArrayAt(s, SkipWs(s, i + 1))
  ELSE IF Word(s, i, <<110, 117, 108, 108>>) THEN Parsed(PyNone, i + 4)
  ELSE IF Word(s, i, <<116, 114, 117, 101>>) THEN Parsed(PyBool(TRUE), i + 4)
  ELSE IF Word(s, i, <<102, 97, 108, 115, 101>>) THEN Parsed(PyBool(FALSE), i + 5)
  ELSE ScanNumber(s, i)

\* JSONDecoder.decode: one value between whitespace, and nothing after it
DecodeEnd(s, v) ==
  IF ~v.ok THEN Raise("JSONDecodeError", <<v.msg>>)
  ELSE IF SkipWs(s, v.pos) # Len(s) + 1 THEN Raise("JSONDecodeError", <<"Extra data">>)
  ELSE Return(v.val)

JsonLoads(s) == DecodeEnd(s, ScanOnce(s, SkipWs(s, 1)))

(***************************************************************************)
(* decode_vmess                                                            *)
(***************************************************************************)
\* line 19: vmess_link.startswith('vmess://')
\* a test of the scheme's name alone, 'vmess:', which line 19 is not
HasSchemeName(vmess_link) == StartsWith(vmess_link, SubSeq(VmessPrefix, 1, 6))
HasVmessPrefix(vmess_link) == StartsWith(vmess_link, VmessPrefix)

\* line 23: vmess_link[8:]
EncodedContent(vmess_link) == SliceFrom(vmess_link, 8)

\* line 20: ValueError("链接必须以 vmess:// 开头")
SchemeError == Raise("ValueError", <<"link must start with vmess://">>)

\* line 29: ValueError(f"无法解析 vmess 链接: {e}")
DecodeError(e) ==
  [Raise("ValueError", <<"cannot parse vmess link: ">> \o e.msg)
     EXCEPT !.cause = e.exc]

\* line 26: json.loads(decoded_content), if .decode('utf-8') gave one
LoadContent(decoded_content) ==
  IF ~decoded_content.ok THEN decoded_content
  ELSE JsonLoads(decoded_content.val)

\* line 25: .decode('utf-8') of the bytes, if b64decode gave them
DecodeBytes(raw) == IF ~raw.ok THEN raw ELSE LoadContent(Utf8Decode(raw.val))

\* lines 25-26 inside the try: the first of the three steps that raises
DecodeContent(encoded_content) == DecodeBytes(B64Decode(encoded_content))

\* lines 27-29: return config, or the exception wrapped
ConfigOrError(config) ==
  IF config.ok THEN Return(config.val) ELSE DecodeError(config)

decode_vmess(vmess_link) ==
  IF ~HasVmessPrefix(vmess_link) THEN SchemeError
  ELSE ConfigOrError(DecodeContent(EncodedContent(vmess_link)))

(***************************************************************************)
(* Python built-ins that generate_clash_config uses                        *)
(***************************************************************************)
\* dict.get(key, default)
Get(d, key, default) == IF key \in DOMAIN d.m THEN d.m[key] ELSE default

\* the truth value that `or` tests
FloatNonZero(s) ==
  \E i \in 1..Len(s) :
     /\ s[i] >= 49 /\ s[i] <= 57
     /\ \A j \in 1..i : s[j] # 101 /\ s[j] # 69
Truthy(v) ==
  CASE v.t = "str" -> v.s # <<>>
    [] v.t = "int" -> v.n # 0
    [] v.t = "bool" -> v.n # 0
    [] v.t = "float" -> FloatNonZero(v.s)
    [] v.t = "dict" -> DOMAIN v.m # {}
    [] v.t = "list" -> v.l # <<>>
    [] OTHER -> FALSE

\* str.lower(), on the ASCII letters
LowerChar(c) == IF c >= 65 /\ c <= 90 THEN c + 32 ELSE c
Lower(s) == [i \in 1..Len(s) |-> LowerChar(s[i])]

\* int(str): whitespace stripped, a sign, digits with single underscores between
IsSpace(c) == c = 32 \/ (c >= 9 /\ c <= 13)
RECURSIVE LStrip(_), RStrip(_)
LStrip(s) == IF s # <<>> /\ IsSpace(s[1]) THEN LStrip(Tail(s)) ELSE s
RStrip(s) ==
  IF s # <<>> /\ IsSpace(s[Len(s)]) THEN RStrip(SubSeq(s, 1, Len(s) - 1)) ELSE s
IsSign(c) == c = 45 \/ c = 43
DigitsWellFormed(body) ==
  /\ body # <<>>
  /\ IsDigit(body[1])
  /\ IsDigit(body[Len(body)])
  /\ \A i \in 1..Len(body) : IsDigit(body[i]) \/ body[i] = 95
  /\ \A i \in 1..(Len(body) - 1) : ~(body[i] = 95 /\ body[i + 1] = 95)
DigitsValue(digits) == DigitsVal(digits, 1, Len(digits))
\* t is the literal stripped, body what follows its sign
IntOfBody(t, body) ==
  IF DigitsWellFormed(body)
  THEN Return(PyInt(Signed(t, 1, DigitsValue(SelectSeq(body, IsDigit)))))
  ELSE Raise("ValueError", <<"invalid literal for int() with base 10">>)
IntOfStripped(t) ==
  IntOfBody(t, IF t # <<>> /\ IsSign(t[1]) THEN Tail(t) ELSE t)
IntLiteral(s) == IntOfStripped(RStrip(LStrip(s)))

\* int(x)
IntOf(v) ==
  CASE v.t = "int" -> Return(PyInt(v.n))
    [] v.t = "bool" -> Return(PyInt(v.n))
    [] v.t = "float" -> Return(PyInt(v.n))
    [] v.t = "str" -> IntLiteral(v.s)
    [] OTHER -> Raise("TypeError",
                      <<"int() argument must be a string, a bytes-like object or a real number">>)

(***************************************************************************)
(* generate_clash_config                                                   *)
(***************************************************************************)
\* lines 42-67
ClashSkeleton ==
  [port |-> PyInt(7890),
   socks_port |-> PyInt(7891),
   allow_lan |-> PyBool(TRUE),
   mode |-> PyStr(T_rule),
   log_level |-> PyStr(T_info),
   external_controller |-> PyStr(T_controller),
   proxies |-> <<>>,
   proxy_groups |->
     << [name |-> PyStr(T_PROXY), type |-> PyStr(T_select),
         proxies |-> <<PyStr(T_AutoSelect)>>],
        [name |-> PyStr(T_AutoSelect), type |-> PyStr(T_url_test),
         url |-> PyStr(T_test_url), interval |-> PyInt(300),
         proxies |-> <<>>] >>,
   rules |-> <<PyStr(T_match)>>]

\* line 70
ProxyName(vmess_config) == Get(vmess_config, K_ps, PyStr(T_VmessNode))

\* line 73: get("scy", "auto") or get("security", "auto")
ResolveSecurity(vmess_config) ==
  LET scy == Get(vmess_config, K_scy, PyStr(T_auto)) IN
    IF Truthy(scy) THEN scy ELSE Get(vmess_config, K_security, PyStr(T_auto))

\* lines 74-75
NormalizeCipher(security) ==
  IF Lower(security.s) = T_zero THEN PyStr(T_auto) ELSE security

\* line 81
ProxyPort(vmess_config) == IntOf(Get(vmess_config, K_port, PyInt(443)))

\* line 83
ProxyAlterId(vmess_config) == IntOf(Get(vmess_config, K_aid, PyInt(0)))

\* line 86
ProxyTls(vmess_config) ==
  PyBool(Get(vmess_config, K_tls, PyStr(T_empty)) = PyStr(T_tls))

\* line 88
ProxyNetwork(vmess_config) == Get(vmess_config, K_net, PyStr(T_tcp))

\* lines 77-89, once port, alterId and cipher are there
ProxyEntry(vmess_config, proxy_name, security, port, alterId) ==
  [name |-> proxy_name,
   type |-> PyStr(T_vmess),
   server |-> Get(vmess_config, K_add, PyStr(T_empty)),
   port |-> port,
   uuid |-> Get(vmess_config, K_id, PyStr(T_empty)),
   alterId |-> alterId,
   cipher |-> security,
   udp |-> PyBool(TRUE),
   tls |-> ProxyTls(vmess_config),
   skip_cert_verify |-> PyBool(TRUE),
   network |-> ProxyNetwork(vmess_config)]

\* line 92
\* a test for any network but the default one, which line 92 is not
IsNotTcp(proxy) == proxy.network # PyStr(T_tcp)
IsWebSocket(proxy) == proxy.network = PyStr(T_ws)

\* lines 93-98
WsOpts(vmess_config) ==
  [path |-> Get(vmess_config, K_path, PyStr(T_slash)),
   headers |-> [host |-> Get(vmess_config, K_host, PyStr(T_empty))]]

\* lines 92-98: proxy["ws-opts"] = {...} for a ws network only
WithWsOpts(vmess_config, proxy) ==
  IF IsWebSocket(proxy) THEN ("ws_opts" :> WsOpts(vmess_config)) @@ proxy
  ELSE proxy

\* lines 104-105: the name joins both proxy groups
\* the name joining the first group only, which lines 104-105 are not
AppendToFirstGroup(groups, proxy_name) ==
  [groups EXCEPT ![1].proxies = Append(@, proxy_name)]
AppendToGroups(groups, proxy_name) ==
  [groups EXCEPT ![1].proxies = Append(@, proxy_name),
                 ![2].proxies = Append(@, proxy_name)]

\* lines 101-105
AddProxy(clash_config, proxy, proxy_name) ==
  [clash_config EXCEPT
     !.proxies = Append(@, proxy),
     !.proxy_groups = AppendToGroups(@, proxy_name)]

\* lines 83-107, once int() of line 81 has returned port
ConfigWithAlterId(vmess_config, security, port, alterId) ==
  IF ~alterId.ok THEN alterId
  ELSE Return(AddProxy(ClashSkeleton,
                       WithWsOpts(vmess_config,
                                  ProxyEntry(vmess_config, ProxyName(vmess_config),
                                             security, port, alterId.val)),
                       ProxyName(vmess_config)))

\* lines 77-107, once lines 74-75 have left the cipher in security
ConfigWithPort(vmess_config, security, port) ==
  IF ~port.ok THEN port
  ELSE ConfigWithAlterId(vmess_config, security, port.val,
                         ProxyAlterId(vmess_config))

\* lines 74-107, once line 73 has bound security
ConfigWithSecurity(vmess_config, security) ==
  IF security.t # "str"
  THEN Raise("AttributeError", <<"object has no attribute 'lower'">>)
  ELSE ConfigWithPort(vmess_config, NormalizeCipher(security),
                      ProxyPort(vmess_config))

generate_clash_config(vmess_config) ==
  IF vmess_config.t # "dict"
  THEN Raise("AttributeError", <<"object has no attribute 'get'">>)
  ELSE ConfigWithSecurity(vmess_config, ResolveSecurity(vmess_config))

(***************************************************************************)
(* The links a user can hand to main (lines 136-141): vmess:// followed by *)
(* the base64 of the UTF-8 bytes of a JSON text, and damaged forms of one. *)
(***************************************************************************)
B64Char(v) ==
  IF v <= 25 THEN v + 65
  ELSE IF v <= 51 THEN v + 71
  ELSE IF v <= 61 THEN v - 4
  ELSE IF v = 62 THEN 43 ELSE 47

\* base64.b64encode: three bytes to four characters, '=' padded
ByteAt(b, i) == IF i <= Len(b) THEN b[i] ELSE 0
\* character r of the four that stand for the bytes b[g+1..g+3]
B64EncodedChar(b, g, r) ==
  IF r = 0 THEN B64Char(ByteAt(b, g + 1) \div 4)
  ELSE IF r = 1
  THEN B64Char((ByteAt(b, g + 1) % 4) * 16 + (ByteAt(b, g + 2) \div 16))
  ELSE IF r = 2
  THEN IF g + 2 > Len(b) THEN 61
       ELSE B64Char((ByteAt(b, g + 2) % 16) * 4 + (ByteAt(b, g + 3) \div 64))
  ELSE IF g + 3 > Len(b) THEN 61 ELSE B64Char(ByteAt(b, g + 3) % 64)
B64Encode(b) ==
  [k \in 1..(4 * ((Len(b) + 2) \div 3)) |->
     B64EncodedChar(b, 3 * ((k - 1) \div 4), (k - 1) % 4)]

\* str.encode('utf-8')
Utf8Bytes(c) ==
  IF c < 128 THEN <<c>>
  ELSE IF c < 2048 THEN <<192 + (c \div 64), 128 + (c % 64)>>
  ELSE IF c < 65536
  THEN <<224 + (c \div 4096), 128 + ((c \div 64) % 64), 128 + (c % 64)>>
  ELSE <<240 + (c \div 262144), 128 + ((c \div 4096) % 64),
         128 + ((c \div 64) % 64), 128 + (c % 64)>>
RECURSIVE Utf8EncodeRange(_, _, _)
Utf8EncodeRange(s, lo, hi) ==
  IF lo > hi THEN <<>>
  ELSE IF lo = hi THEN Utf8Bytes(s[lo])
  ELSE Utf8EncodeRange(s, lo, (lo + hi) \div 2)
       \o Utf8EncodeRange(s, ((lo + hi) \div 2) + 1, hi)
Utf8Encode(s) == Utf8EncodeRange(s, 1, Len(s))

RECURSIVE DecimalText(_)
DecimalText(n) ==
  IF n < 0 THEN <<45>> \o DecimalText(-n)
  ELSE IF n < 10 THEN <<48 + n>>
  ELSE Append(DecimalText(n \div 10), 48 + (n % 10))

\* the compact JSON text of a scalar or of a list (JSON.stringify)
RECURSIVE JsonText(_), JsonItems(_)
JsonText(v) ==
  CASE v.t = "str" -> <<34>> \o v.s \o <<34>>
    [] v.t = "int" -> DecimalText(v.n)
    [] v.t = "float" -> v.s
    [] v.t = "bool" -> IF v.n = 1 THEN <<116, 114, 117, 101>>
                       ELSE <<102, 97, 108, 115, 101>>
    [] v.t = "list" -> <<91>> \o JsonItems(v.l) \o <<93>>
    [] OTHER -> <<110, 117, 108, 108>>
JsonItems(l) ==
  IF l = <<>> THEN <<>>
  ELSE IF Len(l) = 1 THEN JsonText(l[1])
  ELSE JsonText(l[1]) \o <<44>> \o JsonItems(Tail(l))

\* the JSON text of an object given as its members <<key, value>> in order
RECURSIVE MembersText(_)
MembersText(members) ==
  IF members = <<>> THEN <<>>
  ELSE <<34>> \o members[1][1] \o <<34, 58>> \o JsonText(members[1][2])
       \o (IF Len(members) = 1 THEN <<>> ELSE <<44>> \o MembersText(Tail(members)))
ObjectText(members) == <<123>> \o MembersText(members) \o <<125>>

\* the dict a member list denotes
RECURSIVE MembersMap(_)
MembersMap(members) ==
  IF members = <<>> THEN <<>>
  ELSE (members[Len(members)][1] :> members[Len(members)][2])
       @@ MembersMap(SubSeq(members, 1, Len(members) - 1))
RecordOf(members) == PyDict(MembersMap(members))

\* the base64 text without its trailing '='
RECURSIVE StripPadding(_)
StripPadding(s) ==
  IF s # <<>> /\ s[Len(s)] = 61 THEN StripPadding(SubSeq(s, 1, Len(s) - 1)) ELSE s

\* a character outside the base64 alphabet ('!') put after the second character
InsertJunk(s) == SubSeq(s, 1, 2) \o <<33>> \o SubSeq(s, 3, Len(s))

Payload(form, bytes) ==
  CASE form = "unpadded" -> StripPadding(B64Encode(bytes))
    [] form = "junk" -> InsertJunk(B64Encode(bytes))
    [] OTHER -> B64Encode(bytes)

LinkOfBytes(form, bytes) == VmessPrefix \o Payload(form, bytes)
LinkOfText(form, text)   == LinkOfBytes(form, Utf8Encode(text))

(***************************************************************************)
(* The inputs drawn                                                        *)
(***************************************************************************)
\* at most MaxKeys of the keys that generate_clash_config reads are present
MaxKeys == 2
\* how many times the program is run on the same arguments
MaxRuns == 2

\* each key with the values it is given
KeyValues ==
  << <<K_ps, {PyStr(<<84>>), PyStr(T_AutoSelect)}>>,               \* "T"
     <<K_add, {PyStr(<<97, 46, 98>>)}>>,                           \* "a.b"
     <<K_port, {PyStr(<<49, 48, 48, 56, 54>>), PyInt(80),          \* "10086"
                PyStr(<<97, 98, 99>>),                             \* "abc"
                PyFloat(<<56, 46, 57>>, 8)}>>,                     \* 8.9
     <<K_id, {PyStr(<<117, 45, 49>>)}>>,                           \* "u-1"
     <<K_aid, {PyStr(<<50>>), PyNone}>>,                           \* "2"
     <<K_scy, {PyStr(T_zero), PyStr(<<90, 69, 82, 79>>),           \* "ZERO"
               PyStr(<<97, 101, 115, 45, 49, 50, 56, 45, 103, 99, 109>>),
               PyStr(T_empty), PyInt(5)}>>,
     <<K_security, {PyStr(<<97, 101, 115, 45, 49, 50, 56, 45, 103, 99, 109>>),
                    PyStr(<<90, 101, 114, 111>>)}>>,               \* "Zero"
     <<K_tls, {PyStr(T_tls), PyStr(T_empty)}>>,
     <<K_net, {PyStr(T_ws), PyStr(T_tcp), PyStr(<<104, 50>>)}>>,   \* "h2"
     <<K_path, {PyStr(<<47, 119, 115>>)}>>,                        \* "/ws"
     <<K_host, {PyStr(<<97, 46, 99, 111, 109>>)}>> >>              \* "a.com"

\* the member lists with at most budget keys, taken from the i-th key on
RECURSIVE MembersFrom(_, _)
MembersFrom(i, budget) ==
  IF i > Len(KeyValues) \/ budget = 0 THEN {<<>>}
  ELSE MembersFrom(i + 1, budget)
       \cup {<< <<KeyValues[i][1], v>> >> \o rest :
               v \in KeyValues[i][2], rest \in MembersFrom(i + 1, budget - 1)}

\* {"ps":"Test","add":"1.2.3.4","port":"10086","id":"abc-123","aid":"0",
\*  "net":"ws","path":"/path","host":"a.com","tls":"tls"}
ExampleMembers ==
  << <<K_ps, PyStr(<<84, 101, 115, 116>>)>>,
     <<K_add, PyStr(<<49, 46, 50, 46, 51, 46, 52>>)>>,
     <<K_port, PyStr(<<49, 48, 48, 56, 54>>)>>,
     <<K_id, PyStr(<<97, 98, 99, 45, 49, 50, 51>>)>>,
     <<K_aid, PyStr(<<48>>)>>,
     <<K_net, PyStr(T_ws)>>,
     <<K_path, PyStr(<<47, 112, 97, 116, 104>>)>>,
     <<K_host, PyStr(<<97, 46, 99, 111, 109>>)>>,
     <<K_tls, PyStr(T_tls)>> >>

Objects == MembersFrom(1, MaxKeys) \cup {ExampleMembers}

Forms == {"padded", "unpadded", "junk"}

\* JSON values that are no object
NonObjects ==
  {PyList(<<>>), PyList(<<PyInt(1)>>), PyStr(<<115>>), PyInt(7),
   PyFloat(<<49, 46, 53>>, 1), PyBool(TRUE), PyNone}

\* texts that are no JSON: '', '{', '{"ps":}', '{ps:1}', '{} x', '{"a":1,}', 'nul'
BadTexts ==
  {<<>>, <<123>>, <<123, 34, 112, 115, 34, 58, 125>>,
   <<123, 112, 115, 58, 49, 125>>, <<123, 125, 32, 120>>,
   <<123, 34, 97, 34, 58, 49, 44, 125>>, <<110, 117, 108>>}

\* bytes that are no UTF-8: a byte no sequence starts with, an overlong
\* form, a cut sequence, a surrogate, and '{"ps":"\xe8"}'
BadBytes ==
  {<<255>>, <<192, 128>>, <<232, 138>>, <<237, 160, 128>>,
   <<123, 34, 112, 115, 34, 58, 34, 232, 34, 125>>}

\* payloads written by hand:
\* 'e', 'e3', 'e3=', 'e=30', '!!!!', 'e30==', 'e30=x', 'e30 =' and one not ASCII
RawPayloads ==
  {<<101>>, <<101, 51>>, <<101, 51, 61>>, <<101, 61, 51, 48>>,
   <<33, 33, 33, 33>>, <<101, 51, 48, 61, 61>>, <<101, 51, 48, 61, 120>>,
   <<101, 51, 48, 32, 61>>, <<101, 51, 48, 33410>>}

\* prefixes that are not 'vmess://': '', 'VMESS://', 'vmess:/', 'vless://', ' vmess://'
OtherPrefixes ==
  {<<>>, <<86, 77, 69, 83, 83, 58, 47, 47>>, <<118, 109, 101, 115, 115, 58, 47>>,
   <<118, 108, 101, 115, 115, 58, 47, 47>>,
   <<32, 118, 109, 101, 115, 115, 58, 47, 47>>}

\* the default output path; the other one used is in a directory that does not exist
DefaultOutput == "config.yaml"
\* open(output_file, 'w') succeeds
CanOpen(path) == path = DefaultOutput

(***************************************************************************)
(* State                                                                   *)
(***************************************************************************)
VARIABLES
  pc,            \* where the run is: main, decode, generate, save, returned, exited
  vmess_link,    \* main's vmess_link
  output_file,   \* main's output_file
  vmess_config,  \* vmess_to_clash's vmess_config, None before it is bound
  clash_config,  \* vmess_to_clash's clash_config: <<>> before it is bound, <<document>> after
  stdout,        \* the lines printed, each the parts of its f-string
  result,        \* what vmess_to_clash returned, None before it returns
  exit_status,   \* <<>> while the process runs, <<status>> once it has ended
  file,          \* the output file on disk: <<>> if there is none, else <<content>>
  calls,         \* the calls made in this run, in order
  input,         \* how the link was made (kind, form, and the value its JSON denotes)
  runs,          \* the runs started
  earlier        \* what the runs before this one returned, printed and built

vars == <<pc, vmess_link, output_file, vmess_config, clash_config, stdout,
          result, exit_status, file, calls, input, runs, earlier>>

Init ==
  /\ pc = "main"
  /\ vmess_link = <<>>
  /\ output_file = DefaultOutput
  /\ vmess_config = PyNone
  /\ clash_config = <<>>
  /\ stdout = <<>>
  /\ result = PyNone
  /\ exit_status = <<>>
  /\ file = <<>>
  /\ calls = <<>>
  /\ input = [kind |-> "none", form |-> "", record |-> PyNone]
  /\ runs = 0
  /\ earlier = <<>>

(***************************************************************************)
(* main, lines 136-143: the arguments are read and vmess_to_clash entered  *)
(***************************************************************************)
Start(link, path, kind, form, record) ==
  /\ vmess_link' = link
  /\ output_file' = path
  /\ input' = [kind |-> kind, form |-> form, record |-> record]
  /\ pc' = "decode"
  /\ runs' = 1
  /\ calls' = <<"vmess_to_clash">>
  /\ UNCHANGED <<vmess_config, clash_config, stdout, result, exit_status,
                 file, earlier>>

\* a link made of a JSON object
MainObject ==
  /\ pc = "main"
  /\ \E members \in Objects, form \in Forms :
        Start(LinkOfText(form, ObjectText(members)), DefaultOutput,
              "object", form, RecordOf(members))

\* the same, with an output path that cannot be opened
MainUnwritable ==
  /\ pc = "main"
  /\ \E members \in MembersFrom(1, 1) :
        Start(LinkOfText("padded", ObjectText(members)), "missing/config.yaml",
              "object", "padded", RecordOf(members))

\* a link made of a JSON value that is no object
MainNonObject ==
  /\ pc = "main"
  /\ \E v \in NonObjects, form \in Forms :
        Start(LinkOfText(form, JsonText(v)), DefaultOutput, "value", form, v)

\* a link made of a text that is no JSON
MainBadText ==
  /\ pc = "main"
  /\ \E text \in BadTexts :
        Start(LinkOfText("padded", text), DefaultOutput, "text", "padded", PyNone)

\* a link made of bytes that are no UTF-8
MainBadBytes ==
  /\ pc = "main"
  /\ \E bytes \in BadBytes :
        Start(LinkOfBytes("padded", bytes), DefaultOutput, "bytes", "padded", PyNone)

\* a link with a payload written by hand
MainRawPayload ==
  /\ pc = "main"
  /\ \E payload \in RawPayloads :
        Start(VmessPrefix \o payload, DefaultOutput, "payload", "raw", PyNone)

\* a link of another scheme before a sound payload
MainOtherScheme ==
  /\ pc = "main"
  /\ \E prefix \in OtherPrefixes, members \in {<<>>, ExampleMembers} :
        Start(prefix \o B64Encode(Utf8Encode(ObjectText(members))), DefaultOutput,
              "scheme", "padded", RecordOf(members))

Main ==
  \/ MainObject
  \/ MainUnwritable
  \/ MainNonObject
  \/ MainBadText
  \/ MainBadBytes
  \/ MainRawPayload
  \/ MainOtherScheme

(***************************************************************************)
(* vmess_to_clash, lines 117-132                                           *)
(***************************************************************************)
\* lines 130-132: except Exception as e: print(f"转换失败: {e}"); return False
Failed(e) ==
  /\ stdout' = Append(stdout, <<"conversion failed: ">> \o e.msg)
  /\ result' = PyBool(FALSE)
  /\ pc' = "returned"

\* what decode_vmess called, read off what it raised
DecodeCalls(r) ==
  <<"decode_vmess">>
  \o (IF r = SchemeError THEN <<>> ELSE <<"b64decode">>)
  \o (IF r.ok \/ r.cause \in {"UnicodeDecodeError", "JSONDecodeError"}
      THEN <<"bytes.decode">> ELSE <<>>)
  \o (IF r.ok \/ r.cause = "JSONDecodeError" THEN <<"json.loads">> ELSE <<>>)

\* line 119, r being what decode_vmess(vmess_link) returned or raised
Decoded(r) ==
  /\ calls' = calls \o DecodeCalls(r)
  /\ IF r.ok
     THEN /\ vmess_config' = r.val
          /\ pc' = "generate"
          /\ UNCHANGED <<stdout, result>>
     ELSE /\ Failed(r)
          /\ UNCHANGED vmess_config
  /\ UNCHANGED <<vmess_link, output_file, clash_config, exit_status, file,
                 input, runs, earlier>>

DecodeVmess ==
  /\ pc = "decode"
  /\ Decoded(decode_vmess(vmess_link))

\* line 122, r being what generate_clash_config(vmess_config) returned or raised
Generated(r) ==
  /\ IF r.ok
     THEN /\ clash_config' = <<r.val>>
          /\ pc' = "save"
          /\ UNCHANGED <<stdout, result>>
     ELSE /\ Failed(r)
          /\ UNCHANGED clash_config
  /\ calls' = Append(calls, "generate_clash_config")
  /\ UNCHANGED <<vmess_link, output_file, vmess_config, exit_status, file,
                 input, runs, earlier>>

GenerateClashConfig ==
  /\ pc = "generate"
  /\ Generated(generate_clash_config(vmess_config))

\* lines 125-129: the file is opened for writing, the document dumped into
\* it (the file holds the document; its YAML text is yaml.dump's business),
\* the success printed
SaveConfig ==
  /\ pc = "save"
  /\ IF CanOpen(output_file)
     THEN /\ file' = clash_config
          /\ calls' = calls \o <<"open", "yaml.dump">>
          /\ stdout' = Append(stdout, <<"Clash config saved to ", output_file>>)
          /\ result' = PyBool(TRUE)
          /\ pc' = "returned"
     ELSE /\ Failed(Raise("FileNotFoundError", <<"No such file or directory">>))
          /\ calls' = Append(calls, "open")
          /\ UNCHANGED file
  /\ UNCHANGED <<vmess_link, output_file, vmess_config, clash_config,
                 exit_status, input, runs, earlier>>

(***************************************************************************)
(* main, lines 143-146: the value vmess_to_clash returned is dropped, main *)
(* returns and the interpreter ends with status 0                          *)
(***************************************************************************)
Exit ==
  /\ pc = "returned"
  /\ exit_status' = <<0>>
  /\ pc' = "exited"
  /\ UNCHANGED <<vmess_link, output_file, vmess_config, clash_config, stdout,
                 result, file, calls, input, runs, earlier>>

\* the program is run again on the same arguments: a new process, whose
\* variables are fresh; the file on disk stays
Rerun ==
  /\ pc = "exited"
  /\ runs < MaxRuns
  /\ earlier' = Append(earlier, [result |-> result, stdout |-> stdout,
                                 clash_config |-> clash_config])
  /\ runs' = runs + 1
  /\ pc' = "decode"
  /\ vmess_config' = PyNone
  /\ clash_config' = <<>>
  /\ stdout' = <<>>
  /\ result' = PyNone
  /\ exit_status' = <<>>
  /\ calls' = <<"vmess_to_clash">>
  /\ UNCHANGED <<vmess_link, output_file, file, input>>

Next ==
  \/ Main
  \/ DecodeVmess
  \/ GenerateClashConfig
  \/ SaveConfig
  \/ Exit
  \/ Rerun

Spec == Init /\ [][Next]_vars

(***************************************************************************)
(* The properties                                                          *)
(***************************************************************************)
\* C1: a link that does not start with exactly 'vmess://' fails with the
\* scheme error before any decoding of the payload: vmess_to_clash returns
\* False having printed that error, b64decode, the mapper, open and yaml.dump
\* are never called, no record and no document are bound, no file is written.
C1_SchemeErrorBeforeDecoding ==
  (/\ pc \notin {"main", "decode"}
   /\ \E i \in 1..8 : i > Len(vmess_link) \/ vmess_link[i] # VmessPrefix[i])
  => /\ pc \in {"returned", "exited"}
     /\ result = PyBool(FALSE)
     /\ stdout[Len(stdout)]
          = <<"conversion failed: ", "link must start with vmess://">>
     /\ \A i \in 1..Len(calls) :
          calls[i] \notin {"b64decode", "bytes.decode", "json.loads",
                           "generate_clash_config", "open", "yaml.dump"}
     /\ vmess_config = PyNone
     /\ clash_config = <<>>
     /\ file = <<>>

\* a run has ended on a link whose scheme differs from 'vmess://' only by
\* case or by one character, before a payload that would decode
C1_Witness ==
  /\ pc = "exited"
  /\ Len(vmess_link) > 8
  /\ \E i \in 1..8 : vmess_link[i] # VmessPrefix[i]
  /\ Lower(SubSeq(vmess_link, 1, 8)) = VmessPrefix
     \/ SubSeq(vmess_link, 1, 7) = SubSeq(VmessPrefix, 1, 7)

\* C2: a link with the prefix whose payload is not base64 (it holds a
\* character that is neither of the alphabet nor '='), or is base64 of bytes
\* that are no UTF-8, or of a text that is no JSON, makes decode_vmess raise
\* the decode error with its cause, and no record is returned.
C2_MalformedPayloadRejected ==
  (/\ pc \notin {"main", "decode"}
   /\ StartsWith(vmess_link, VmessPrefix)
   /\ \/ \E i \in 9..Len(vmess_link) :
           vmess_link[i] < 128 /\ ~IsB64OrPad(vmess_link[i])
      \/ input.kind \in {"bytes", "text"})
  => /\ pc \in {"returned", "exited"}
     /\ vmess_config = PyNone
     /\ result = PyBool(FALSE)
     /\ Len(stdout[Len(stdout)]) > 2
     /\ SubSeq(stdout[Len(stdout)], 1, 2)
          = <<"conversion failed: ", "cannot parse vmess link: ">>

\* C3: a link made of the padded base64 of a JSON object yields a document
\* with one proxy entry that follows the table (name, server, port, uuid,
\* alterId, tls, network, udp, skip-cert-verify, each with its default), and
\* a second run on the same link builds the same document.
C3_MappingTable ==
  (/\ pc \in {"save", "returned", "exited"}
   /\ input.kind = "object"
   /\ input.form = "padded")
  => /\ clash_config # <<>>
     /\ Len(clash_config[1].proxies) = 1
     /\ clash_config[1].proxies[1].name
          = Get(input.record, K_ps, PyStr(T_VmessNode))
     /\ clash_config[1].proxies[1].server
          = Get(input.record, K_add, PyStr(T_empty))
     /\ clash_config[1].proxies[1].uuid
          = Get(input.record, K_id, PyStr(T_empty))
     /\ clash_config[1].proxies[1].network
          = Get(input.record, K_net, PyStr(T_tcp))
     /\ clash_config[1].proxies[1].tls
          = PyBool(K_tls \in DOMAIN input.record.m
                   /\ input.record.m[K_tls] = PyStr(T_tls))
     /\ clash_config[1].proxies[1].udp = PyBool(TRUE)
     /\ clash_config[1].proxies[1].skip_cert_verify = PyBool(TRUE)
     /\ clash_config[1].proxies[1].port.t = "int"
     /\ K_port \notin DOMAIN input.record.m
          => clash_config[1].proxies[1].port = PyInt(443)
     /\ (K_port \in DOMAIN input.record.m /\ input.record.m[K_port].t = "str")
          => DecimalText(clash_config[1].proxies[1].port.n)
               = input.record.m[K_port].s
     /\ (K_port \in DOMAIN input.record.m /\ input.record.m[K_port].t = "int")
          => clash_config[1].proxies[1].port = input.record.m[K_port]
     /\ clash_config[1].proxies[1].alterId.t = "int"
     /\ K_aid \notin DOMAIN input.record.m
          => clash_config[1].proxies[1].alterId = PyInt(0)
     /\ (K_aid \in DOMAIN input.record.m /\ input.record.m[K_aid].t = "str")
          => DecimalText(clash_config[1].proxies[1].alterId.n)
               = input.record.m[K_aid].s
     /\ \A i \in 1..Len(earlier) : earlier[i].clash_config = clash_config

\* C4: the cipher of the entry is the value of scy, else the value of
\* security, else 'auto'; a value that is 'zero' in any case becomes 'auto',
\* any other value passes unchanged.
C4_CipherResolution ==
  (/\ clash_config # <<>>
   /\ vmess_config.t = "dict")
  => /\ (K_scy \in DOMAIN vmess_config.m /\ vmess_config.m[K_scy].s # <<>>)
          => clash_config[1].proxies[1].cipher
               = IF Lower(vmess_config.m[K_scy].s) = T_zero
                 THEN PyStr(T_auto) ELSE vmess_config.m[K_scy]
     /\ (K_scy \notin DOMAIN vmess_config.m
         /\ K_security \in DOMAIN vmess_config.m)
          => clash_config[1].proxies[1].cipher
               = IF Lower(vmess_config.m[K_security].s) = T_zero
                 THEN PyStr(T_auto) ELSE vmess_config.m[K_security]
     /\ (K_scy \notin DOMAIN vmess_config.m
         /\ K_security \notin DOMAIN vmess_config.m)
          => clash_config[1].proxies[1].cipher = PyStr(T_auto)

\* C5: the entry has ws-opts if and only if the value of net (default 'tcp')
\* is 'ws'; ws-opts then holds path (default '/') and headers with the one
\* entry host (default ''); for 'tcp', for net absent and for any other
\* network there is no ws-opts.
C5_WsOptsIffWs ==
  (/\ clash_config # <<>>
   /\ vmess_config.t = "dict")
  => /\ "ws_opts" \in DOMAIN clash_config[1].proxies[1]
          <=> (K_net \in DOMAIN vmess_config.m
               /\ vmess_config.m[K_net] = PyStr(T_ws))
     /\ "ws_opts" \in DOMAIN clash_config[1].proxies[1]
          => /\ DOMAIN clash_config[1].proxies[1].ws_opts = {"path", "headers"}
             /\ clash_config[1].proxies[1].ws_opts.path
                  = (IF K_path \in DOMAIN vmess_config.m
                     THEN vmess_config.m[K_path] ELSE PyStr(T_slash))
             /\ DOMAIN clash_config[1].proxies[1].ws_opts.headers = {"host"}
             /\ clash_config[1].proxies[1].ws_opts.headers.host
                  = (IF K_host \in DOMAIN vmess_config.m
                     THEN vmess_config.m[K_host] ELSE PyStr(T_empty))

\* a document was built for net = 'ws' with a path given and no host
C5_WitnessWs ==
  /\ clash_config # <<>>
  /\ vmess_config.t = "dict"
  /\ K_net \in DOMAIN vmess_config.m
  /\ vmess_config.m[K_net] = PyStr(T_ws)
  /\ K_path \in DOMAIN vmess_config.m
  /\ K_host \notin DOMAIN vmess_config.m
  /\ "ws_opts" \in DOMAIN clash_config[1].proxies[1]

\* C6: a document has exactly two groups, PROXY (select) and the auto-select
\* group (url-test); the members of PROXY are the auto-select group's name and
\* then the proxy's name, the only member of the auto-select group is the
\* proxy's name, whatever that name is.
C6_GroupMembership ==
  clash_config # <<>>
  => /\ Len(clash_config[1].proxy_groups) = 2
     /\ clash_config[1].proxy_groups[1].name = PyStr(T_PROXY)
     /\ clash_config[1].proxy_groups[1].type = PyStr(T_select)
     /\ clash_config[1].proxy_groups[2].name = PyStr(T_AutoSelect)
     /\ clash_config[1].proxy_groups[2].type = PyStr(T_url_test)
     /\ Len(clash_config[1].proxies) = 1
     /\ clash_config[1].proxy_groups[1].proxies
          = <<PyStr(T_AutoSelect), clash_config[1].proxies[1].name>>
     /\ clash_config[1].proxy_groups[2].proxies
          = <<clash_config[1].proxies[1].name>>

\* a document was built for a proxy named as the auto-select group is
C6_WitnessGroupName ==
  /\ clash_config # <<>>
  /\ clash_config[1].proxies[1].name = PyStr(T_AutoSelect)
  /\ pc = "exited"

\* C7: generate_clash_config returns a document for every record that
\* decode_vmess returns: once it was called on a dict, a document is bound.
C7_MapperNeverFails ==
  (/\ pc \in {"save", "returned", "exited"}
   /\ vmess_config.t = "dict")
  => clash_config # <<>>

\* C8: the link made of the base64 of a JSON object without its trailing '='
\* decodes to the record that the padded link decodes to.
C8_UnpaddedTolerated ==
  (/\ pc \notin {"main", "decode"}
   /\ input.kind = "object"
   /\ input.form = "unpadded")
  => vmess_config = input.record

\* C9: what decode_vmess returns is a mapping: a payload that is the JSON of
\* an array, a string, a number, a boolean or null is refused with the decode
\* error and never reaches the mapper.
C9_NonObjectRejected ==
  /\ pc \in {"generate", "save"} => vmess_config.t = "dict"
  /\ (pc \notin {"main", "decode"} /\ input.kind = "value"
      /\ input.form = "padded")
     => /\ "generate_clash_config" \notin {calls[i] : i \in 1..Len(calls)}
        /\ Len(stdout[Len(stdout)]) > 2
        /\ SubSeq(stdout[Len(stdout)], 1, 2)
             = <<"conversion failed: ", "cannot parse vmess link: ">>

\* C10: a run that failed has printed the failure with its cause and ends
\* with a status that is not 0; only a run that decoded, mapped and wrote
\* ends with status 0.
C10_FailureExitStatus ==
  pc = "exited"
  => /\ result = PyBool(FALSE)
          => /\ Len(stdout[Len(stdout)]) > 1
             /\ stdout[Len(stdout)][1] = "conversion failed: "
             /\ exit_status # <<0>>
     /\ exit_status = <<0>>
          => /\ result = PyBool(TRUE)
             /\ file = clash_config
             /\ clash_config # <<>>

=============================================================================
